---- MODULE Spec2Model ----
(***************************************************************************)
(* Generation-aware reconcile/prune engine of guilhem/reconcileprune.      *)
(*                                                                         *)
(* The model follows src/pruner.go: a Pruner is built per reconcile pass   *)
(* over the owner's children ledger, MarkReconciled records the desired    *)
(* children, Prune deletes the stale ones.  The cluster (the deletion      *)
(* transport's view of which children exist) and the owner's generation    *)
(* are the environment.                                                    *)
(*                                                                         *)
(* Strings of the Go code are modelled by the tuples of the fields that    *)
(* are formatted into them.                                                *)
(***************************************************************************)
EXTENDS Integers, Sequences, FiniteSets, TLC

VARIABLES
    generation,  \* owner.GetGeneration()
    children,    \* *p.children: the ledger in the owner's status
    cluster,     \* per resource, the UID of the live object (NoUID: absent)
    uids,        \* how many objects were created so far (a UID is never reused)
    phase,       \* "idle" (no Pruner yet), "marking" (built), "pruned" (Prune returned)
    pruner,      \* the Pruner struct of the current session
    marked,      \* history: the references MarkReconciled accepted this session
    session,     \* history: the generation this session has run at, its last Prune's error
    last,        \* history: what the last step did and returned, if it was a call
    prev,        \* history: how the previous session ended
    retained,    \* history: the entries kept because their deletion failed
    stamped,     \* history: the references marked since the generation last changed
    preview      \* history: what the dry-run session before this one reported as skipped

vars == <<generation, children, cluster, uids, phase, pruner, marked, session, last, prev,
          retained, stamped, preview>>

(***************************************************************************)
(* Bounds                                                                  *)
(***************************************************************************)
MaxGen == 2   \* the owner's generation runs over 1..MaxGen

\* metadata.uid of an object that was not created yet.
NoUID == ""

\* The UIDs the API server hands out, in this order.
UIDs == <<"uid-1", "uid-2">>

(***************************************************************************)
(* The resources the caller manages (type + namespace + name).             *)
(***************************************************************************)
Deployment ==
    [APIVersion |-> "apps/v1", Kind |-> "Deployment", Namespace |-> "default", Name |-> "web"]

Service ==
    [APIVersion |-> "v1", Kind |-> "Service", Namespace |-> "default", Name |-> "web"]

Resources == {Deployment, Service}

\* A runtime.Scheme: the set of registered (APIVersion, Kind).
GVK(r) == [APIVersion |-> r.APIVersion, Kind |-> r.Kind]

FullScheme == {GVK(Deployment), GVK(Service)}

AppsScheme == {GVK(Deployment)}

Schemes == {FullScheme, AppsScheme}

\* A client.Object: the resource plus its metadata.uid.
Object(r, uid) ==
    [APIVersion |-> r.APIVersion, Kind |-> r.Kind, Namespace |-> r.Namespace,
     Name |-> r.Name, UID |-> uid]

\* The resource an object or a reference names, as the API server addresses it.
ResourceOf(o) ==
    [APIVersion |-> o.APIVersion, Kind |-> o.Kind, Namespace |-> o.Namespace, Name |-> o.Name]

ManagedChild(ref, gen) == [ObjectReference |-> ref, ObservedGeneration |-> gen]

EmptyResult == [Pruned |-> <<>>, Skipped |-> <<>>]

(***************************************************************************)
(* Pure helpers of pruner.go                                               *)
(***************************************************************************)
\* getGVK: the object's kind as the scheme knows it.
getGVK(scheme, obj) ==
    IF GVK(obj) \in scheme
    THEN [err |-> FALSE, gvk |-> GVK(obj)]
    ELSE [err |-> TRUE, gvk |-> GVK(obj)]

\* Mutant of makeObjectReference: the error of getGVK is ignored.
makeObjectReferenceAnyKind(scheme, obj) ==
    [err |-> FALSE,
     ref |-> [APIVersion |-> obj.APIVersion, Kind |-> obj.Kind,
              Namespace |-> obj.Namespace, Name |-> obj.Name, UID |-> obj.UID]]

makeObjectReference(scheme, obj) ==
    LET g == getGVK(scheme, obj)
    IN  IF g.err
        THEN [err |-> TRUE, ref |-> Object(obj, NoUID)]
        ELSE [err |-> FALSE,
              ref |-> [APIVersion |-> g.gvk.APIVersion, Kind |-> g.gvk.Kind,
                       Namespace |-> obj.Namespace, Name |-> obj.Name, UID |-> obj.UID]]

\* objectFromReference: a fresh object of the reference's kind carrying only
\* name and namespace (no UID).
objectFromReference(scheme, ref) ==
    IF GVK(ref) \in scheme
    THEN [err |-> FALSE, obj |-> Object(ResourceOf(ref), NoUID)]
    ELSE [err |-> TRUE, obj |-> Object(ResourceOf(ref), NoUID)]

\* Mutant of makeRefKey: the key also carries the UID.
makeRefKeyWithUID(ref) == <<ref.APIVersion, ref.Kind, ref.Namespace, ref.Name, ref.UID>>

\* Mutant of makeRefKey: the key leaves the type out.
makeRefKeyByName(ref) == <<ref.Namespace, ref.Name>>

\* makeRefKey: "%s/%s/%s/%s" of APIVersion, Kind, Namespace, Name.
makeRefKey(ref) == <<ref.APIVersion, ref.Kind, ref.Namespace, ref.Name>>

\* formatObjectReference: "Kind ns/name", or "Kind name" without namespace.
formatObjectReference(ref) ==
    IF ref.Namespace # ""
    THEN <<ref.Kind, ref.Namespace, ref.Name>>
    ELSE <<ref.Kind, ref.Name>>

RECURSIVE maxGenFrom(_, _, _)
maxGenFrom(cs, i, maxGen) ==
    IF i > Len(cs) THEN maxGen
    ELSE maxGenFrom(cs, i + 1,
                    IF cs[i].ObservedGeneration > maxGen
                    THEN cs[i].ObservedGeneration ELSE maxGen)

\* Mutant of getLastAppliedGeneration: the baseline is always 0, as for an
\* empty ledger.
getLastAppliedGenerationZero(cs, currentGen) == 0

\* Mutant of getLastAppliedGeneration: a ledger that is not empty is taken to
\* be applied at the current generation.
getLastAppliedGenerationCurrent(cs, currentGen) ==
    IF Len(cs) = 0 THEN 0 ELSE currentGen

getLastAppliedGeneration(cs, currentGen) ==
    IF Len(cs) = 0 THEN 0
    ELSE LET maxGen == maxGenFrom(cs, 1, 0)
         IN  IF maxGen = currentGen THEN currentGen ELSE maxGen

RECURSIVE indexOfRef(_, _, _)
indexOfRef(cs, ref, i) ==
    IF i > Len(cs) THEN 0
    ELSE IF cs[i].ObjectReference = ref THEN i
    ELSE indexOfRef(cs, ref, i + 1)

\* Mutant of upsertChild: an existing entry keeps the generation it had.
upsertChildKeepStamp(cs, ref, observedGeneration) ==
    IF indexOfRef(cs, ref, 1) # 0
    THEN cs
    ELSE Append(cs, ManagedChild(ref, observedGeneration))

\* Mutant of upsertChild: an entry of the same type, namespace and name is
\* taken for the entry of the reference.
upsertChildByName(cs, ref, observedGeneration) ==
    IF \E i \in 1..Len(cs) : ResourceOf(cs[i].ObjectReference) = ResourceOf(ref)
    THEN [i \in 1..Len(cs) |->
            IF ResourceOf(cs[i].ObjectReference) = ResourceOf(ref)
            THEN [cs[i] EXCEPT !.ObservedGeneration = observedGeneration]
            ELSE cs[i]]
    ELSE Append(cs, ManagedChild(ref, observedGeneration))

\* Mutant of upsertChild: the entry is appended without looking for it.
upsertChildAppend(cs, ref, observedGeneration) ==
    Append(cs, ManagedChild(ref, observedGeneration))

upsertChild(cs, ref, observedGeneration) ==
    LET i == indexOfRef(cs, ref, 1)
    IN  IF i # 0
        THEN [cs EXCEPT ![i].ObservedGeneration = observedGeneration]
        ELSE Append(cs, ManagedChild(ref, observedGeneration))

\* Mutant of shouldPrune: the guard lets a pass at the baseline generation prune.
shouldPruneAtBaseline(currentGen, lastAppliedGen) == currentGen >= lastAppliedGen

\* The guard of Prune: only a pass whose generation is above the baseline prunes.
shouldPrune(currentGen, lastAppliedGen) == currentGen > lastAppliedGen

\* Mutant of markDesired: marking also resets the baseline of the session.
markDesiredResetBaseline(p, ref) ==
    [p EXCEPT !.desiredRefs = @ \cup {makeRefKey(ref)}, !.lastAppliedGen = 0]

\* MarkReconciled: p.desiredRefs[makeRefKey(ref)] = struct{}{}
markDesired(p, ref) == [p EXCEPT !.desiredRefs = @ \cup {makeRefKey(ref)}]

\* MarkReconciled as a function of the Pruner, the ledger, the object and the
\* generation it reads: err is what it returns ("uid": the object has no UID,
\* "reference": makeObjectReference failed), pruner and children what it
\* leaves, ref the reference it made.
markReconciled(p, cs, obj, currentGen) ==
    LET r == makeObjectReference(p.scheme, obj)
    IN  IF obj.UID = NoUID
        THEN [err |-> "uid", pruner |-> p, children |-> cs, ref |-> r.ref]
        ELSE IF r.err
        THEN [err |-> "reference", pruner |-> p, children |-> cs, ref |-> r.ref]
        ELSE [err |-> "nil", pruner |-> markDesired(p, r.ref),
              children |-> upsertChild(cs, r.ref, currentGen), ref |-> r.ref]

\* WithDryRun: the option that switches the Pruner's dryRun field on.
WithDryRun(p, dryRun) == [p EXCEPT !.dryRun = dryRun]

\* WithScheme
WithScheme(p, scheme) == [p EXCEPT !.scheme = scheme]

\* WithErrorHandler
WithErrorHandler(p, handler) == [p EXCEPT !.errorHandler = handler]

\* Mutant of defaultErrorHandler: the default policy ignores the error.
defaultErrorHandlerIgnore == "nil"

\* defaultErrorHandler wraps the error and returns it: never nil.
defaultErrorHandler == "error"

\* What p.errorHandler returns for a failed deletion: the default handler
\* always returns an error; a custom handler returns what the caller decides
\* (decision "nil" or "error").
errorHandler(handler, decision) ==
    IF handler = "default" THEN defaultErrorHandler ELSE decision

\* Mutant of deleteResource: a NotFound answer is returned as an error.
deleteResourceStrict(cl, obj, transport) ==
    IF transport = "fail" \/ cl[ResourceOf(obj)] = NoUID
    THEN [err |-> TRUE, notFound |-> cl[ResourceOf(obj)] = NoUID /\ transport # "fail",
          cluster |-> cl]
    ELSE [err |-> FALSE, notFound |-> FALSE,
          cluster |-> [cl EXCEPT ![ResourceOf(obj)] = NoUID]]

\* deleteResource: client.Delete, with NotFound turned into success.
\* transport = "fail": the API call fails with an error other than NotFound.
deleteResource(cl, obj, transport) ==
    IF transport = "fail"
    THEN [err |-> TRUE, notFound |-> FALSE, cluster |-> cl]
    ELSE IF cl[ResourceOf(obj)] = NoUID
    THEN [err |-> FALSE, notFound |-> TRUE, cluster |-> cl]
    ELSE [err |-> FALSE, notFound |-> FALSE,
          cluster |-> [cl EXCEPT ![ResourceOf(obj)] = NoUID]]

(***************************************************************************)
(* pruneStaleResources: one pass over the ledger.  The loop state st holds *)
(* newChildren, result and pruneErrors of the Go code, the cluster the     *)
(* deletions act on, and the history of Delete and errorHandler calls     *)
(* (handled: the references, returned: what the handler returned).         *)
(* input is what the environment does to the deletion of this child:       *)
(* "ok" (the transport answers), "fail_error" (the transport fails and a   *)
(* custom handler returns an error), "fail_nil" (the transport fails and a *)
(* custom handler returns nil).                                            *)
(***************************************************************************)
Inputs == {"ok", "fail_error", "fail_nil"}

Transport(input) == IF input = "ok" THEN "ok" ELSE "fail"

Decision(input) == IF input = "fail_nil" THEN "nil" ELSE "error"

\* Mutant of keepChild: the entry is put at the head of newChildren.
keepChildFirst(st, child) == [st EXCEPT !.newChildren = <<child>> \o @]

\* Mutant of keepChild: the entry is not carried over to newChildren.
keepChildDropped(st, child) == st

\* newChildren = append(newChildren, child)
keepChild(st, child) == [st EXCEPT !.newChildren = Append(@, child)]

\* Mutant of recordSkipped: the dry-run branch reports the entry as pruned.
recordSkippedAsPruned(st, child) ==
    [st EXCEPT !.result.Pruned = Append(@, formatObjectReference(child.ObjectReference))]

\* The dry-run branch: result.Skipped = append(result.Skipped, refStr); continue
recordSkipped(st, child) ==
    [st EXCEPT !.result.Skipped = Append(@, formatObjectReference(child.ObjectReference))]

\* Mutant of recordPruned: the pruned entry is also carried over to newChildren.
recordPrunedAndKept(st, child) ==
    [st EXCEPT !.result.Pruned = Append(@, formatObjectReference(child.ObjectReference)),
               !.newChildren = Append(@, child)]

\* result.Pruned = append(result.Pruned, refStr)
recordPruned(st, child) ==
    [st EXCEPT !.result.Pruned = Append(@, formatObjectReference(child.ObjectReference))]

\* Mutant of recordWaived: a failure the handler waived is retained like one
\* it did not waive.
recordWaivedAsFailed(st, child) ==
    [st EXCEPT !.pruneErrors = Append(@, [cause |-> "delete", ref |-> child.ObjectReference]),
               !.newChildren = Append(@, child)]

\* The handler returned nil: "Error was ignored by handler, record as pruned".
recordWaived(st, child) ==
    [st EXCEPT !.result.Pruned = Append(@, formatObjectReference(child.ObjectReference))]

\* Mutant of recordFailed: the error is accumulated, the entry is not kept.
recordFailedDropped(st, child) ==
    [st EXCEPT !.pruneErrors = Append(@, [cause |-> "delete", ref |-> child.ObjectReference])]

\* The handler returned an error: pruneErrors = append(pruneErrors, handledErr)
\* and "Keep the child in status if deletion failed".
recordFailed(st, child) ==
    [st EXCEPT !.pruneErrors = Append(@, [cause |-> "delete", ref |-> child.ObjectReference]),
               !.newChildren = Append(@, child)]

\* objectFromReference failed: the error is accumulated; continue.
recordObjectError(st, child) ==
    [st EXCEPT !.pruneErrors = Append(@, [cause |-> "object", ref |-> child.ObjectReference])]

pruneChild(p, st, child, desiredRefs, lastAppliedGen, input) ==
    IF makeRefKey(child.ObjectReference) \in desiredRefs
    THEN keepChild(st, child)
    ELSE IF child.ObservedGeneration > lastAppliedGen
    THEN keepChild(st, child)
    ELSE
        LET o == objectFromReference(p.scheme, child.ObjectReference)
        IN  IF o.err
            THEN recordObjectError(st, child)
            ELSE IF p.dryRun
            THEN recordSkipped(st, child)
            ELSE
                LET d == deleteResource(st.cluster, o.obj, Transport(input))
                    called == [st EXCEPT
                                 !.cluster = d.cluster,
                                 !.deleted = Append(@, [ref |-> child.ObjectReference,
                                                        notFound |-> d.notFound,
                                                        err |-> d.err])]
                IN  IF d.err
                    THEN
                        LET handledErr == errorHandler(p.errorHandler, Decision(input))
                            told == [called EXCEPT
                                       !.handled = Append(@, child.ObjectReference),
                                       !.returned = Append(@, handledErr)]
                        IN  IF handledErr # "nil"
                            THEN recordFailed(told, child)
                            ELSE recordWaived(told, child)
                    ELSE recordPruned(called, child)

\* Mutant of pruneLoop: the ledger is scanned from its last entry to its first.
RECURSIVE pruneLoopBackwards(_, _, _, _, _, _, _)
pruneLoopBackwards(p, st, cs, i, desiredRefs, lastAppliedGen, inputs) ==
    IF i > Len(cs) THEN st
    ELSE pruneLoopBackwards(p, pruneChild(p, st, cs[Len(cs) + 1 - i], desiredRefs,
                                          lastAppliedGen, inputs[Len(cs) + 1 - i]),
                            cs, i + 1, desiredRefs, lastAppliedGen, inputs)

\* Mutant of pruneLoop: an entry whose pass added an error is tried once more.
RECURSIVE pruneLoopRetry(_, _, _, _, _, _, _)
pruneLoopRetry(p, st, cs, i, desiredRefs, lastAppliedGen, inputs) ==
    IF i > Len(cs) THEN st
    ELSE LET once == pruneChild(p, st, cs[i], desiredRefs, lastAppliedGen, inputs[i])
             twice == IF Len(once.pruneErrors) > Len(st.pruneErrors)
                      THEN pruneChild(p, [once EXCEPT !.newChildren = st.newChildren],
                                      cs[i], desiredRefs, lastAppliedGen, inputs[i])
                      ELSE once
         IN  pruneLoopRetry(p, twice, cs, i + 1, desiredRefs, lastAppliedGen, inputs)

\* Mutant of pruneLoop: the scan stops at the first accumulated error.
RECURSIVE pruneLoopFailFast(_, _, _, _, _, _, _)
pruneLoopFailFast(p, st, cs, i, desiredRefs, lastAppliedGen, inputs) ==
    IF i > Len(cs) \/ Len(st.pruneErrors) > 0 THEN st
    ELSE pruneLoopFailFast(p, pruneChild(p, st, cs[i], desiredRefs, lastAppliedGen,
                                         inputs[i]),
                           cs, i + 1, desiredRefs, lastAppliedGen, inputs)

RECURSIVE pruneLoop(_, _, _, _, _, _, _)
pruneLoop(p, st, cs, i, desiredRefs, lastAppliedGen, inputs) ==
    IF i > Len(cs) THEN st
    ELSE pruneLoop(p, pruneChild(p, st, cs[i], desiredRefs, lastAppliedGen, inputs[i]),
                   cs, i + 1, desiredRefs, lastAppliedGen, inputs)

pruneStaleResources(p, cs, cl, desiredRefs, lastAppliedGen, result, inputs) ==
    pruneLoop(p,
              [newChildren |-> <<>>, result |-> result, pruneErrors |-> <<>>,
               cluster |-> cl, deleted |-> <<>>, handled |-> <<>>, returned |-> <<>>],
              cs, 1, desiredRefs, lastAppliedGen, inputs)

\* What Prune leaves when the generation guard skips pruneStaleResources.
noPrune(cs, cl, result) ==
    [newChildren |-> cs, result |-> result, pruneErrors |-> <<>>,
     cluster |-> cl, deleted |-> <<>>, handled |-> <<>>, returned |-> <<>>]

\* The error of a failed updateStatus callback, as a cause.
StatusCause ==
    [cause |-> "status",
     ref |-> [APIVersion |-> "", Kind |-> "", Namespace |-> "", Name |-> "", UID |-> ""]]

\* Mutant of returnedError: only the first accumulated error is returned.
returnedErrorFirst(pruneErrors, statusOK) ==
    IF ~statusOK THEN [err |-> "status", wraps |-> <<StatusCause>>]
    ELSE IF Len(pruneErrors) > 0 THEN [err |-> "prune", wraps |-> <<pruneErrors[1]>>]
    ELSE [err |-> "nil", wraps |-> <<>>]

\* What Prune returns as its error: with accumulated errors, the error of a
\* failed updateStatus ("failed to update status after prune errors") or else
\* errors.Join(pruneErrors...); without, the error of a failed updateStatus
\* or nil.
returnedError(pruneErrors, statusOK) ==
    IF Len(pruneErrors) > 0
    THEN IF ~statusOK
         THEN [err |-> "status", wraps |-> <<StatusCause>>]
         ELSE [err |-> "prune", wraps |-> pruneErrors]
    ELSE IF ~statusOK
         THEN [err |-> "status", wraps |-> <<StatusCause>>]
         ELSE [err |-> "nil", wraps |-> <<>>]

(***************************************************************************)
(* State                                                                   *)
(***************************************************************************)
NoPruner ==
    [scheme |-> FullScheme, dryRun |-> FALSE, errorHandler |-> "default",
     desiredRefs |-> {}, result |-> EmptyResult, lastAppliedGen |-> 0]

\* The argument of a call that takes no object.
NoObject == [APIVersion |-> "", Kind |-> "", Namespace |-> "", Name |-> "", UID |-> NoUID]

\* last: op is the call, arg the object it was given, err and causes what it returned (causes: the
\* pruneErrors of the pass), ran whether pruneStaleResources ran, deleted the
\* client.Delete calls and handled the errorHandler calls of the pass, in
\* order, with returned what each of these handler calls returned; status is
\* what the updateStatus callback returned and wraps the causes that the
\* returned error wraps; again says that the step before was a Prune of the same session,
\* and clean that this earlier Prune had accumulated no error.
NoCall ==
    [op |-> "none", arg |-> NoObject, err |-> "nil", causes |-> <<>>, ran |-> FALSE,
     deleted |-> <<>>, handled |-> <<>>, returned |-> <<>>, status |-> "none",
     wraps |-> <<>>, again |-> FALSE, clean |-> FALSE]

\* session: gen is the generation the session was built at, 0 once the
\* generation has changed under it; err is what its last Prune returned.
\* top is the highest observedGeneration of the ledger the session was built
\* over (0 for an empty ledger).
NoSession == [gen |-> 0, err |-> "none", top |-> 0]

Range(seq) == {seq[i] : i \in 1..Len(seq)}

Stamps(cs) == {cs[i].ObservedGeneration : i \in 1..Len(cs)}

HighestStamp(cs) ==
    IF Stamps(cs) = {} THEN 0 ELSE CHOOSE g \in Stamps(cs) : \A h \in Stamps(cs) : h <= g

\* prev: the previous session, kept for as long as the current one can be its
\* redundant repeat: it ran at one generation, its last Prune returned no
\* error, the owner's generation is still the same, the current session has
\* marked nothing that it had not marked, and has called Prune only with all
\* of its marks made.  marked is what it marked.
NoPrev == [ok |-> FALSE, marked |-> {}]

\* retained: refs are the references of the entries that the latest Prune kept
\* because their deletion failed and that were not marked since; session says
\* whether that Prune was one of the current session ("this") or of the
\* session before it ("prev").
NoRetained == [refs |-> {}, session |-> "none"]

Retained(refs, which) ==
    IF refs = {} THEN NoRetained ELSE [refs |-> refs, session |-> which]

Init ==
    /\ generation = 1
    /\ children = <<>>
    /\ cluster = [r \in Resources |-> NoUID]
    /\ uids = 0
    /\ phase = "idle"
    /\ pruner = NoPruner
    /\ marked = {}
    /\ session = NoSession
    /\ last = NoCall
    /\ prev = NoPrev
    /\ retained = NoRetained
    /\ stamped = {}
    /\ preview = {}

(***************************************************************************)
(* Environment: the owner's spec changes, the caller applies a child, a    *)
(* child disappears from the cluster.                                      *)
(***************************************************************************)
SetGeneration ==
    /\ phase # "pruned"
    /\ generation < MaxGen
    /\ generation' = generation + 1
    /\ session' = [session EXCEPT !.gen = 0]
    /\ last' = NoCall
    /\ prev' = NoPrev
    /\ stamped' = {}
    /\ preview' = {}
    /\ UNCHANGED <<children, cluster, uids, phase, pruner, marked, retained>>

Create(r) ==
    /\ phase # "pruned"
    /\ cluster[r] = NoUID
    /\ uids < Len(UIDs)
    /\ uids' = uids + 1
    /\ cluster' = [cluster EXCEPT ![r] = UIDs[uids + 1]]
    /\ last' = NoCall
    /\ UNCHANGED <<generation, children, phase, pruner, marked, session, prev, retained,
                   stamped, preview>>

Delete(r) ==
    /\ phase # "pruned"
    /\ cluster[r] # NoUID
    /\ cluster' = [cluster EXCEPT ![r] = NoUID]
    /\ last' = NoCall
    /\ UNCHANGED <<generation, children, uids, phase, pruner, marked, session, prev,
                   retained, stamped, preview>>

(***************************************************************************)
(* The Pruner's operations                                                 *)
(***************************************************************************)
NewPruner(scheme, dryRun, handler) ==
    /\ phase = "idle"
    /\ LET p == [scheme |-> FullScheme, dryRun |-> FALSE, errorHandler |-> "default",
                 desiredRefs |-> {}, result |-> EmptyResult,
                 lastAppliedGen |-> getLastAppliedGeneration(children, generation)]
       IN  pruner' = WithErrorHandler(WithDryRun(WithScheme(p, scheme), dryRun), handler)
    /\ phase' = "marking"
    /\ marked' = {}
    /\ session' = [gen |-> generation, err |-> "none", top |-> HighestStamp(children)]
    /\ last' = NoCall
    /\ UNCHANGED <<generation, children, cluster, uids, prev, retained, stamped, preview>>

MarkReconciled(obj) ==
    /\ phase # "idle"
    /\ LET call == [NoCall EXCEPT !.op = "MarkReconciled", !.arg = obj]
           m == markReconciled(pruner, children, obj, generation)
       IN  IF m.err # "nil"
           THEN /\ last' = [call EXCEPT !.err = m.err]
                /\ UNCHANGED <<children, pruner, marked, prev, retained, stamped, preview>>
           ELSE /\ pruner' = m.pruner
                /\ children' = m.children
                /\ marked' = marked \cup {m.ref}
                /\ stamped' = stamped \cup {m.ref}
                /\ prev' = IF m.ref \in prev.marked THEN prev ELSE NoPrev
                /\ preview' = IF m.ref \in prev.marked THEN preview ELSE {}
                /\ retained' = Retained({f \in retained.refs :
                                            ResourceOf(f) # ResourceOf(m.ref)},
                                         retained.session)
                /\ last' = call
    /\ UNCHANGED <<generation, cluster, uids, phase, session>>

Prune(inputs, statusOK) ==
    /\ phase # "idle"
    /\ LET currentGen == generation
           ran == shouldPrune(currentGen, pruner.lastAppliedGen)
           st == IF ran
                 THEN pruneStaleResources(pruner, children, cluster, pruner.desiredRefs,
                                          pruner.lastAppliedGen, pruner.result, inputs)
                 ELSE noPrune(children, cluster, pruner.result)
           ret == returnedError(st.pruneErrors, statusOK)
           err == ret.err
           failed == {i \in 1..Len(st.pruneErrors) : st.pruneErrors[i].cause = "delete"}
       IN  /\ children' = st.newChildren
           /\ cluster' = st.cluster
           /\ pruner' = [pruner EXCEPT !.result = st.result]
           /\ session' = [session EXCEPT !.err = err]
           /\ last' = [op |-> "Prune", arg |-> NoObject, err |-> err, causes |-> st.pruneErrors,
                       ran |-> ran, deleted |-> st.deleted, handled |-> st.handled,
                       returned |-> st.returned,
                       status |-> IF statusOK THEN "ok" ELSE "failed",
                       wraps |-> ret.wraps,
                       again |-> last.op = "Prune",
                       clean |-> last.op = "Prune" /\ last.causes = <<>>]
           /\ retained' = Retained({st.pruneErrors[i].ref : i \in failed}, "this")
    /\ phase' = "pruned"
    /\ prev' = IF marked = prev.marked THEN prev ELSE NoPrev
    /\ preview' = IF marked = prev.marked THEN preview ELSE {}
    /\ UNCHANGED <<generation, uids, marked, stamped>>

\* The reconcile pass is over: the caller drops the Pruner.
Return ==
    /\ phase # "idle"
    /\ phase' = "idle"
    /\ pruner' = NoPruner
    /\ marked' = {}
    /\ session' = NoSession
    /\ last' = NoCall
    /\ prev' = IF phase = "pruned" /\ session.err = "nil" /\ session.gen = generation
               THEN [ok |-> TRUE, marked |-> marked]
               ELSE NoPrev
    /\ retained' = IF retained.session = "this"
                   THEN Retained(retained.refs, "prev")
                   ELSE NoRetained
    /\ preview' = IF /\ phase = "pruned" /\ session.err = "nil" /\ session.gen = generation
                      /\ pruner.dryRun
                   THEN Range(pruner.result.Skipped)
                   ELSE {}
    /\ UNCHANGED <<generation, children, cluster, uids, stamped>>

\* The environment's part in one Prune call: one input per ledger entry.
\* Only a pass that reaches client.Delete reads them, and only a custom
\* handler can return nil.
PruneInputs ==
    IF shouldPrune(generation, pruner.lastAppliedGen) /\ ~pruner.dryRun
    THEN [1..Len(children) ->
            IF pruner.errorHandler = "default" THEN {"ok", "fail_error"} ELSE Inputs]
    ELSE {[i \in 1..Len(children) |-> "ok"]}

Next ==
    \/ SetGeneration
    \/ \E r \in Resources : Create(r)
    \/ \E r \in Resources : Delete(r)
    \/ \E scheme \in Schemes, dryRun \in BOOLEAN, handler \in {"default", "custom"} :
          NewPruner(scheme, dryRun, handler)
    \/ \E r \in Resources : MarkReconciled(Object(r, cluster[r]))
    \/ \E inputs \in PruneInputs, statusOK \in BOOLEAN : Prune(inputs, statusOK)
    \/ Return

Spec == Init /\ [][Next]_vars

(***************************************************************************)
(* Vocabulary of the properties                                            *)
(***************************************************************************)
\* The step is a Prune call (every other step sets last.op to something else).
PruneStep == last'.op = "Prune"

\* The step is a MarkReconciled call.
MarkStep == last'.op = "MarkReconciled"

Refs(cs) == {c.ObjectReference : c \in Range(cs)}

\* The resources (type + namespace + name) marked in this session.
MarkedResources == {ResourceOf(m) : m \in marked}

\* The entries of pruned or skipped that a call added: what follows the old list.
Added(old, new) == SubSeq(new, Len(old) + 1, Len(new))

\* The entries of a ledger as Prune reports them in pruned and skipped.
Formatted(cs) == [i \in 1..Len(cs) |-> formatObjectReference(cs[i].ObjectReference)]

\* The references of a ledger, or of a list of client.Delete calls, in order.
RefSeq(cs) == [i \in 1..Len(cs) |-> cs[i].ObjectReference]

DeletedRefs(calls) == [i \in 1..Len(calls) |-> calls[i].ref]

\* The entry names a resource that was marked in this session.
MarkedByName(e) == ResourceOf(e.ObjectReference) \in MarkedResources

\* The entry's reference (all fields, the UID included) was marked in this session.
MarkedByReference(e) == e.ObjectReference \in marked

\* The entry was stamped above the baseline captured at construction.
Fresh(e) == e.ObservedGeneration > pruner.lastAppliedGen

\* The entries of the ledger that name no marked resource, and those that do.
UnmarkedByName(cs) == LET Test(e) == ~MarkedByName(e) IN SelectSeq(cs, Test)

KeptByName(cs) == LET Test(e) == MarkedByName(e) IN SelectSeq(cs, Test)

\* How many times x occurs in a list.
Count(seq, x) == Cardinality({i \in 1..Len(seq) : seq[i] = x})

\* The error handler returned an error for the failed deletion of this
\* reference: Prune accumulated it in pruneErrors.
Failed(causes, ref) == [cause |-> "delete", ref |-> ref] \in Range(causes)

\* In this call the error handler was called for the reference and returned ret.
HandlerReturned(call, ref, ret) ==
    \E i \in 1..Len(call.handled) : call.handled[i] = ref /\ call.returned[i] = ret

\* The stale entries of a ledger, in order: they name no marked resource and
\* are not above the baseline; those whose kind the scheme of the session
\* knows, and those whose kind it does not know.
Stale(e) == ~MarkedByName(e) /\ ~Fresh(e)

StaleWithHandle(cs) ==
    LET Test(e) == Stale(e) /\ GVK(e.ObjectReference) \in pruner.scheme
    IN  SelectSeq(cs, Test)

StaleWithoutHandle(cs) ==
    LET Test(e) == Stale(e) /\ GVK(e.ObjectReference) \notin pruner.scheme
    IN  SelectSeq(cs, Test)

\* The entries of the ledger old that are no longer in the ledger new, in order.
Removed(old, new) == LET Test(e) == e \notin Range(new) IN SelectSeq(old, Test)

UnmarkedByReference(cs) == LET Test(e) == ~MarkedByReference(e) IN SelectSeq(cs, Test)

\* What Prune did with an entry of the ledger it started from: it left the
\* entry alone when the entry is in the ledger afterwards and Prune neither
\* called client.Delete for it, nor reported it as skipped, nor accumulated an
\* error for it.
LeftAlone(e) ==
    /\ e \in Range(children')
    /\ e.ObjectReference \notin Range(DeletedRefs(last'.deleted))
    /\ \A c \in Range(last'.causes) : c.ref # e.ObjectReference
    /\ formatObjectReference(e.ObjectReference)
          \notin Range(Added(pruner.result.Skipped, pruner'.result.Skipped))

\* sub is a subsequence of seq: its elements occur in seq in the same order.
RECURSIVE IsSubsequence(_, _)
IsSubsequence(sub, seq) ==
    IF sub = <<>> THEN TRUE
    ELSE IF seq = <<>> THEN FALSE
    ELSE IF Head(sub) = Head(seq) THEN IsSubsequence(Tail(sub), Tail(seq))
    ELSE IsSubsequence(sub, Tail(seq))

\* The objects a caller can hand to MarkReconciled: each resource under each
\* UID (Created, in a fixed order), and not yet created.
Created ==
    <<Object(Deployment, UIDs[1]), Object(Deployment, UIDs[2]),
      Object(Service, UIDs[1]), Object(Service, UIDs[2])>>

Markable == Range(Created) \cup {Object(r, NoUID) : r \in Resources}

\* The Pruner and the ledger after MarkReconciled(obj) at the current generation.
After(s, obj) ==
    LET m == markReconciled(s.pruner, s.children, obj, generation)
    IN  [pruner |-> m.pruner, children |-> m.children]

\* The step is a NewPruner call: a session is constructed.
NewPrunerStep == phase = "idle" /\ phase' = "marking"

\* Ledgers of up to MaxLedger entries with every observedGeneration from 0 to
\* MaxGen, and the generations the owner can be read at.
MaxLedger == 2

Generations == 0..MaxGen

Ledgers ==
    UNION {[1..n -> {ManagedChild(Object(Deployment, UIDs[1]), g) : g \in Generations}] :
              n \in 0..MaxLedger}

(***************************************************************************)
(* C1  No premature deletion: a Prune that reads a generation not above    *)
(* the baseline captured at construction invokes no deletion, leaves the   *)
(* ledger as it is and adds nothing to pruned or skipped, whatever was     *)
(* marked.                                                                 *)
(***************************************************************************)
C1_NoPrematureDeletion ==
    [][(PruneStep /\ generation <= pruner.lastAppliedGen)
         => /\ last'.deleted = <<>>
            /\ children' = children
            /\ cluster' = cluster
            /\ pruner'.result = pruner.result]_vars

\* A Prune at the baseline generation returned with nothing marked and an
\* unmarked entry in the ledger.
C1_Witness ==
    /\ last.op = "Prune"
    /\ generation <= pruner.lastAppliedGen
    /\ marked = {}
    /\ children # <<>>

(***************************************************************************)
(* C2  No deletion call of Prune targets a resource (type, namespace,      *)
(* name) that was marked in this session, also when the ledger holds an    *)
(* older entry of that resource with another UID.                          *)
(***************************************************************************)
C2_NeverDeletesMarked ==
    last.op = "Prune"
        => \A d \in Range(last.deleted) : ResourceOf(d.ref) \notin MarkedResources

\* A pruning pass ran in normal mode while the ledger held, next to a marked
\* reference, an older entry of the same resource with another UID that is
\* stale by its generation.
C2_Witness ==
    /\ last.op = "Prune"
    /\ last.ran
    /\ ~pruner.dryRun
    /\ \E c \in Range(children), m \in marked :
          /\ ResourceOf(c.ObjectReference) = ResourceOf(m)
          /\ c.ObjectReference.UID # m.UID
          /\ c.ObservedGeneration <= pruner.lastAppliedGen

(***************************************************************************)
(* C3  Exact staleness partition, as amended: after a Prune that ran       *)
(* pruning (generation above the baseline) and returned no error, an entry *)
(* that was in the ledger when Prune started is still there if and only if *)
(* a reference of the same type, namespace and name was marked in this     *)
(* session, whatever its UID, or the entry's observedGeneration is above   *)
(* the baseline.                                                           *)
(***************************************************************************)
C3_StalenessPartition ==
    [][(PruneStep /\ generation > pruner.lastAppliedGen /\ last'.err = "nil")
         => \A e \in Range(children) :
               e \in Range(children') <=> (MarkedByName(e) \/ Fresh(e))]_vars

\* C3 as stated: the entry survives iff its reference, equal in all fields,
\* was marked or its observedGeneration is above the baseline.
C3_Original ==
    [][(PruneStep /\ generation > pruner.lastAppliedGen /\ last'.err = "nil")
         => \A e \in Range(children) :
               e \in Range(children') <=> (MarkedByReference(e) \/ Fresh(e))]_vars

\* A pruning pass returned without error and the ledger still holds an entry
\* at or below the baseline whose own reference was not marked: the child was
\* recreated and marked under its new UID.
C3_Witness ==
    /\ last.op = "Prune"
    /\ last.ran
    /\ last.err = "nil"
    /\ \E e \in Range(children) : ~MarkedByReference(e) /\ MarkedByName(e) /\ ~Fresh(e)

(***************************************************************************)
(* C4  Invariant I1, as amended: at the end of a Prune in which pruning    *)
(* ran, every entry still in the ledger names a marked resource (its key   *)
(* is in desiredRefs), or has observedGeneration above the baseline, or is *)
(* an entry whose deletion failed in this Prune with the error policy      *)
(* returning an error.  A Prune in which pruning did not run leaves the    *)
(* ledger as it is.                                                        *)
(***************************************************************************)
C4_SurvivorsOfPruning ==
    (last.op = "Prune" /\ last.ran)
        => \A e \in Range(children) :
              \/ MarkedByName(e)
              \/ Fresh(e)
              \/ [cause |-> "delete", ref |-> e.ObjectReference] \in Range(last.causes)

\* C4 as stated: after any Prune, every entry is in desiredRefs or above the
\* baseline.
C4_Original ==
    last.op = "Prune"
        => \A e \in Range(children) :
              makeRefKey(e.ObjectReference) \in pruner.desiredRefs \/ Fresh(e)

\* A pruning pass ended with a marked entry and a stale entry whose deletion
\* failed both in the ledger.
C4_Witness ==
    /\ last.op = "Prune"
    /\ last.ran
    /\ \E e \in Range(children) : MarkedByName(e)
    /\ \E e \in Range(children) :
          /\ ~MarkedByName(e)
          /\ ~Fresh(e)
          /\ [cause |-> "delete", ref |-> e.ObjectReference] \in Range(last.causes)

(***************************************************************************)
(* C5  Pruning on generation change, as amended: in a session built after  *)
(* the generation rose above every stamp of the ledger, a Prune in normal  *)
(* mode whose deletions all succeed adds to pruned exactly the entries     *)
(* that name no marked resource, in ledger order, invokes their deletion,  *)
(* and leaves exactly the entries that name a marked resource: the marked  *)
(* references, each stamped with the current generation, and any older     *)
(* entry of a marked resource under another UID, with the stamp it had.    *)
(***************************************************************************)
C5_PruneOnGenerationChange ==
    [][(/\ PruneStep
        /\ ~pruner.dryRun
        /\ session.gen = generation
        /\ generation > pruner.lastAppliedGen
        /\ last'.causes = <<>>
        /\ \A d \in Range(last'.deleted) : ~d.err)
         => /\ Added(pruner.result.Pruned, pruner'.result.Pruned)
                 = Formatted(UnmarkedByName(children))
            /\ DeletedRefs(last'.deleted) = RefSeq(UnmarkedByName(children))
            /\ children' = KeptByName(children)
            /\ marked \subseteq Refs(children')
            /\ \A e \in Range(children') :
                  IF MarkedByReference(e)
                  THEN e.ObservedGeneration = generation
                  ELSE e \in Range(children) /\ ~Fresh(e)]_vars

\* C5 as stated: pruned lists exactly the entries whose reference was not
\* marked, their deletion was invoked, and the ledger afterwards holds exactly
\* the marked references, each stamped with the current generation.
C5_Original ==
    [][(/\ PruneStep
        /\ ~pruner.dryRun
        /\ session.gen = generation
        /\ generation > pruner.lastAppliedGen
        /\ last'.causes = <<>>
        /\ \A d \in Range(last'.deleted) : ~d.err)
         => /\ Added(pruner.result.Pruned, pruner'.result.Pruned)
                 = Formatted(UnmarkedByReference(children))
            /\ DeletedRefs(last'.deleted) = RefSeq(UnmarkedByReference(children))
            /\ Refs(children') = marked
            /\ \A e \in Range(children') : e.ObservedGeneration = generation]_vars

\* A Prune of a session built at a generation above the baseline deleted a
\* stale entry and kept a marked one, with every deletion succeeding.
C5_Witness ==
    /\ last.op = "Prune"
    /\ last.ran
    /\ ~pruner.dryRun
    /\ session.gen = generation
    /\ last.causes = <<>>
    /\ last.deleted # <<>>
    /\ \A d \in Range(last.deleted) : ~d.err /\ ~d.notFound
    /\ marked # {}
    /\ pruner.lastAppliedGen > 0

C7_RedundantReconcile ==
    [][(prev.ok /\ prev'.ok)
         => /\ children' = children
            /\ PruneStep => /\ last'.deleted = <<>>
                            /\ pruner'.result = EmptyResult]_vars

\* The Prune of a redundant second session returned; the session repeated the
\* mark of the first one, and the ledger also holds an entry it did not mark.
C7_Witness ==
    /\ last.op = "Prune"
    /\ prev.ok
    /\ marked # {}
    /\ marked = prev.marked
    /\ \E e \in Range(children) : ~MarkedByReference(e)

(***************************************************************************)
(* C8  Dry-run non-mutation: a Prune with dry-run enabled removes no entry *)
(* from the ledger and deletes no child in the cluster.                    *)
(***************************************************************************)
C8_DryRunNonMutation ==
    [][(PruneStep /\ pruner.dryRun)
         => /\ \A e \in Range(children) : e \in Range(children')
            /\ cluster' = cluster]_vars

C10_NotFoundTolerance ==
    [][PruneStep
         => \A d \in Range(last'.deleted) :
               d.notFound
                 => /\ ~d.err
                    /\ formatObjectReference(d.ref) \in
                          Range(Added(pruner.result.Pruned, pruner'.result.Pruned))
                    /\ d.ref \notin Refs(children')
                    /\ d.ref \notin Range(last'.handled)
                    /\ \A c \in Range(last'.causes) : c.ref # d.ref]_vars

\* A Prune whose only deletion was answered NotFound returned without error.
C10_Witness ==
    /\ last.op = "Prune"
    /\ last.err = "nil"
    /\ Len(last.deleted) = 1
    /\ last.deleted[1].notFound

(***************************************************************************)
(* C11  Failed deletion is retained: when client.Delete fails for a stale  *)
(* entry with an error other than NotFound and the error handler returns   *)
(* an error, the entry is in the ledger after Prune with the               *)
(* observedGeneration it had, pruned lists no more than the other entries  *)
(* of that name whose deletion went through, and Prune returns an error.   *)
(***************************************************************************)
C11_FailedDeletionRetained ==
    [][PruneStep
         => \A e \in Range(children) :
               (/\ \E d \in Range(last'.deleted) :
                      d.ref = e.ObjectReference /\ d.err /\ ~d.notFound
                /\ HandlerReturned(last', e.ObjectReference, "error"))
                 => /\ e \in Range(children')
                    /\ Count(Added(pruner.result.Pruned, pruner'.result.Pruned),
                             formatObjectReference(e.ObjectReference))
                         = Cardinality({i \in 1..Len(last'.deleted) :
                              /\ formatObjectReference(last'.deleted[i].ref)
                                   = formatObjectReference(e.ObjectReference)
                              /\ ~Failed(last'.causes, last'.deleted[i].ref)})
                    /\ last'.err # "nil"]_vars

\* A Prune returned after a deletion failed and the handler returned an
\* error, the status update itself succeeding.
C11_Witness ==
    /\ last.op = "Prune"
    /\ last.err = "prune"
    /\ \E e \in Range(children) :
          /\ HandlerReturned(last, e.ObjectReference, "error")
          /\ Failed(last.causes, e.ObjectReference)
          /\ ~Fresh(e)

(***************************************************************************)
(* C12  Waived deletion failure: when client.Delete fails for a stale      *)
(* entry with an error other than NotFound and the error handler returns   *)
(* nil, the entry is added to pruned and leaves the ledger, and Prune      *)
(* accumulates no error for it: a pruning error that Prune returns is on   *)
(* account of another entry.                                               *)
(***************************************************************************)
C12_WaivedDeletionFailure ==
    [][PruneStep
         => \A e \in Range(children) :
               (/\ \E d \in Range(last'.deleted) :
                      d.ref = e.ObjectReference /\ d.err /\ ~d.notFound
                /\ HandlerReturned(last', e.ObjectReference, "nil"))
                 => /\ formatObjectReference(e.ObjectReference) \in
                          Range(Added(pruner.result.Pruned, pruner'.result.Pruned))
                    /\ e.ObjectReference \notin Refs(children')
                    /\ \A c \in Range(last'.causes) : c.ref # e.ObjectReference
                    /\ last'.err = "prune"
                          => \E c \in Range(last'.causes) : c.ref # e.ObjectReference]_vars

\* A Prune returned nil although its one deletion failed: the custom handler
\* waived the failure, and the child is still in the cluster.
C12_Witness ==
    /\ last.op = "Prune"
    /\ last.err = "nil"
    /\ Len(last.deleted) = 1
    /\ last.deleted[1].err
    /\ HandlerReturned(last, last.deleted[1].ref, "nil")
    /\ cluster[ResourceOf(last.deleted[1].ref)] # NoUID
    /\ pruner.result.Pruned # <<>>

C14_NeverFailsFast ==
    [][(PruneStep /\ generation > pruner.lastAppliedGen)
         => /\ IF pruner.dryRun
               THEN /\ Added(pruner.result.Skipped, pruner'.result.Skipped)
                         = Formatted(StaleWithHandle(children))
                    /\ last'.deleted = <<>>
               ELSE /\ DeletedRefs(last'.deleted) = RefSeq(StaleWithHandle(children))
                    /\ pruner'.result.Skipped = pruner.result.Skipped
            /\ \A e \in Range(StaleWithoutHandle(children)) :
                  [cause |-> "object", ref |-> e.ObjectReference] \in Range(last'.causes)]_vars

\* A Prune called client.Delete for a second stale entry after the deletion of
\* the first one had failed and the handler had returned an error.
C14_Witness ==
    /\ last.op = "Prune"
    /\ Len(last.deleted) = 2
    /\ last.deleted[1].err
    /\ HandlerReturned(last, last.deleted[1].ref, "error")
    /\ ~last.deleted[2].err

(***************************************************************************)
(* C15  Partial progress on error: whenever Prune returns an error, the    *)
(* entries it added to the pruned list of the result it returns are        *)
(* exactly the entries it removed from the ledger.                         *)
(***************************************************************************)
C15_PartialProgressOnError ==
    [][(PruneStep /\ last'.err # "nil")
         => Added(pruner.result.Pruned, pruner'.result.Pruned)
               = Formatted(Removed(children, children'))]_vars

(***************************************************************************)
(* C16  Aggregate failure, as amended: Prune returns an error if and only  *)
(* if the error handler returned an error for a failed deletion, or the    *)
(* handle of a stale entry could not be built, or the updateStatus         *)
(* callback failed.  When updateStatus succeeds the returned error wraps   *)
(* the accumulated causes, one per such entry and no other; when it fails  *)
(* the returned error wraps the status error alone.                        *)
(***************************************************************************)
C16_AggregateFailure ==
    [][PruneStep
         => LET unbuilt == IF generation > pruner.lastAppliedGen
                           THEN RefSeq(StaleWithoutHandle(children)) ELSE <<>>
                refused == {i \in 1..Len(last'.returned) : last'.returned[i] # "nil"}
            IN  /\ last'.err # "nil"
                     <=> (refused # {} \/ unbuilt # <<>> \/ last'.status = "failed")
                /\ last'.status = "ok"
                     => /\ Len(last'.wraps) = Cardinality(refused) + Len(unbuilt)
                        /\ \A i \in refused :
                              [cause |-> "delete", ref |-> last'.handled[i]]
                                 \in Range(last'.wraps)
                        /\ \A ref \in Range(unbuilt) :
                              [cause |-> "object", ref |-> ref] \in Range(last'.wraps)
                /\ last'.status = "failed" => last'.wraps = <<StatusCause>>]_vars

\* C16 as stated: Prune returns an error iff a stale entry could not be
\* removed, and the returned error wraps every accumulated cause.
C16_Original ==
    [][PruneStep
         => LET unbuilt == IF generation > pruner.lastAppliedGen
                           THEN RefSeq(StaleWithoutHandle(children)) ELSE <<>>
                refused == {i \in 1..Len(last'.returned) : last'.returned[i] # "nil"}
            IN  /\ last'.err # "nil" <=> (refused # {} \/ unbuilt # <<>>)
                /\ \A c \in Range(last'.causes) : c \in Range(last'.wraps)]_vars

\* A Prune whose status update succeeded returned an error that wraps two
\* causes, one for each of two stale entries.
C16_Witness ==
    /\ last.op = "Prune"
    /\ last.status = "ok"
    /\ last.err = "prune"
    /\ Len(last.wraps) = 2

(***************************************************************************)
(* C17  MarkReconciled fails without mutation: called with an object whose *)
(* UID is empty, or whose kind the scheme does not know, MarkReconciled    *)
(* returns an error and leaves desiredRefs, the ledger and the result as   *)
(* they were.                                                              *)
(***************************************************************************)
C17_MarkFailsWithoutMutation ==
    [][(MarkStep /\ (last'.arg.UID = NoUID \/ GVK(last'.arg) \notin pruner.scheme))
         => /\ last'.err # "nil"
            /\ pruner'.desiredRefs = pruner.desiredRefs
            /\ children' = children
            /\ pruner'.result = pruner.result]_vars

\* MarkReconciled returned an error for a created child of a kind the scheme
\* does not know, in a session that had marked another child.
C17_Witness ==
    /\ last.op = "MarkReconciled"
    /\ last.arg.UID # NoUID
    /\ GVK(last.arg) \notin pruner.scheme
    /\ pruner.desiredRefs # {}
    /\ children # <<>>

(***************************************************************************)
(* C18  MarkReconciled upsert: after a successful MarkReconciled the key   *)
(* of the object's reference is in desiredRefs and the ledger holds        *)
(* exactly one entry with that reference, stamped with the owner's         *)
(* generation at the call: an entry that had the reference is updated in   *)
(* place, otherwise one entry is appended at the end.                      *)
(***************************************************************************)
C18_MarkReconciledUpsert ==
    [][(MarkStep /\ last'.err = "nil")
         => LET ref == last'.arg
                at == {i \in 1..Len(children) : children[i].ObjectReference = ref}
            IN  /\ makeRefKey(ref) \in pruner'.desiredRefs
                /\ Count(RefSeq(children'), ref) = 1
                /\ ManagedChild(ref, generation) \in Range(children')
                /\ IF at # {}
                   THEN /\ Len(children') = Len(children)
                        /\ \A i \in 1..Len(children) :
                              children'[i] = IF i \in at
                                             THEN ManagedChild(ref, generation)
                                             ELSE children[i]
                   ELSE children' = Append(children, ManagedChild(ref, generation))]_vars

\* MarkReconciled succeeded for a child whose entry stands first in the
\* ledger, before an entry of an earlier generation: it was stamped in place.
C18_Witness ==
    /\ last.op = "MarkReconciled"
    /\ last.err = "nil"
    /\ Len(children) = 2
    /\ children[1].ObjectReference = last.arg
    /\ children[1].ObservedGeneration = generation
    /\ children[2].ObservedGeneration < generation

(***************************************************************************)
(* C19  MarkReconciled frame: a MarkReconciled call invokes no deletion,   *)
(* removes no ledger entry, leaves every entry other than the one of the   *)
(* marked reference as it is and at its place, and changes neither the     *)
(* baseline nor the result.                                                *)
(***************************************************************************)
C19_MarkReconciledFrame ==
    [][MarkStep
         => /\ cluster' = cluster
            /\ last'.deleted = <<>>
            /\ Len(children') >= Len(children)
            /\ \A i \in 1..Len(children) :
                  /\ children'[i].ObjectReference = children[i].ObjectReference
                  /\ children[i].ObjectReference # last'.arg => children'[i] = children[i]
            /\ pruner'.lastAppliedGen = pruner.lastAppliedGen
            /\ pruner'.result = pruner.result]_vars

\* MarkReconciled succeeded for a recreated child while the ledger holds the
\* entry of its earlier UID, stamped at an earlier generation, and the session
\* has a result from an earlier Prune.
C19_Witness ==
    /\ last.op = "MarkReconciled"
    /\ last.err = "nil"
    /\ \E e \in Range(children) :
          /\ ResourceOf(e.ObjectReference) = ResourceOf(last.arg)
          /\ e.ObjectReference # last.arg
          /\ e.ObservedGeneration < generation
    /\ phase = "pruned"

(***************************************************************************)
(* C20  Ledger uniqueness: whatever sessions, generation changes and       *)
(* deletion outcomes there were, no two entries of the ledger have equal   *)
(* references.                                                             *)
(***************************************************************************)
C20_LedgerUniqueness ==
    \A i, j \in 1..Len(children) :
        children[i].ObjectReference = children[j].ObjectReference => i = j

\* The ledger holds two entries of the same child, marked under the UID it
\* had first and under the UID it got when it was recreated.
C20_Witness ==
    /\ Len(children) = 2
    /\ ResourceOf(children[1].ObjectReference) = ResourceOf(children[2].ObjectReference)
    /\ last.op = "MarkReconciled"
    /\ last.err = "nil"

\* getLastAppliedGeneration returns the maximum observedGeneration, 0 for the
\* empty ledger, for every ledger and every generation of the owner.
BaselineIsMaximum ==
    \A cs \in Ledgers, currentGen \in Generations :
        getLastAppliedGeneration(cs, currentGen) = HighestStamp(cs)

(***************************************************************************)
(* C21  Baseline computation: the baseline captured at session             *)
(* construction is 0 for an empty ledger and otherwise the maximum         *)
(* observedGeneration of the ledger; and for every ledger and every        *)
(* generation of the owner, getLastAppliedGeneration returns that maximum: *)
(* its branch 'maximum equals current generation' yields nothing else.     *)
(***************************************************************************)
C21_BaselineComputation ==
    [][NewPrunerStep
         => /\ pruner'.lastAppliedGen = HighestStamp(children)
            /\ BaselineIsMaximum]_vars

\* A session was just constructed over a ledger whose maximum
\* observedGeneration is the current generation while another entry is
\* stamped below it.
C21_Witness ==
    /\ phase = "marking"
    /\ marked = {}
    /\ last.op = "none"
    /\ session.gen = generation
    /\ pruner.lastAppliedGen = generation
    /\ \E e \in Range(children) : e.ObservedGeneration < generation

(***************************************************************************)
(* C22  Baseline is frozen: NewPruner captures the baseline from the       *)
(* ledger as it finds it and leaves the ledger alone, and no later step of *)
(* the session (MarkReconciled, Prune, a change of the owner's generation, *)
(* a child created or deleted) changes the baseline.                       *)
(***************************************************************************)
C22_BaselineFrozen ==
    [][/\ NewPrunerStep
            => /\ children' = children
               /\ pruner'.lastAppliedGen = getLastAppliedGeneration(children, generation)
       /\ (phase # "idle" /\ phase' # "idle")
            => pruner'.lastAppliedGen = pruner.lastAppliedGen]_vars

\* A Prune returned in a session that has marked a child and under which the
\* generation has changed: the baseline is no longer what the ledger and the
\* generation would give.
C22_Witness ==
    /\ last.op = "Prune"
    /\ session.gen = 0
    /\ marked # {}
    /\ pruner.lastAppliedGen # getLastAppliedGeneration(children, generation)
    /\ pruner.lastAppliedGen > 0

(***************************************************************************)
(* C23  First reconcile, as amended: in a session constructed over an      *)
(* empty ledger, with the generation g >= 1 unchanged since, a Prune after *)
(* n references were marked adds nothing to pruned or skipped, invokes no  *)
(* deletion, and leaves a ledger of exactly the n marked references, each  *)
(* with observedGeneration = g; it returns no error if the status update   *)
(* succeeds, and the error of the status update if that fails.             *)
(***************************************************************************)
C23_FirstReconcile ==
    [][(PruneStep /\ session.top = 0 /\ session.gen = generation /\ generation >= 1)
         => /\ last'.err = "nil" <=> last'.status = "ok"
            /\ last'.causes = <<>>
            /\ pruner'.result = EmptyResult
            /\ last'.deleted = <<>>
            /\ cluster' = cluster
            /\ Len(children') = Cardinality(marked)
            /\ Refs(children') = marked
            /\ \A e \in Range(children') : e.ObservedGeneration = generation]_vars

\* C23 as stated: the Prune of a first reconcile yields no error.
C23_Original ==
    [][(PruneStep /\ session.top = 0 /\ session.gen = generation /\ generation >= 1)
         => /\ last'.err = "nil"
            /\ pruner'.result.Pruned = <<>>
            /\ last'.deleted = <<>>
            /\ Len(children') = Cardinality(marked)
            /\ \A e \in Range(children') : e.ObservedGeneration = generation]_vars

\* The Prune of a session constructed over an empty ledger returned without
\* error after two children were marked; pruning ran, the generation being
\* above the baseline 0.
C23_Witness ==
    /\ last.op = "Prune"
    /\ last.ran
    /\ last.err = "nil"
    /\ session.top = 0
    /\ session.gen = generation
    /\ Cardinality(marked) = 2
    /\ Len(children) = 2

(***************************************************************************)
(* C24  Only previous generations are pruned: every ledger entry for which *)
(* Prune calls client.Delete has an observedGeneration strictly below the  *)
(* owner's current generation and was not marked in this session, neither  *)
(* its reference nor another reference of the same resource.               *)
(***************************************************************************)
C24_OnlyPreviousGenerations ==
    [][PruneStep
         => \A d \in Range(last'.deleted) :
               /\ d.ref \in Refs(children)
               /\ \A e \in Range(children) :
                     e.ObjectReference = d.ref
                       => /\ e.ObservedGeneration < generation
                          /\ ~MarkedByReference(e)
                          /\ ~MarkedByName(e)]_vars

\* A Prune called client.Delete for an entry of an earlier generation, which
\* is still in the ledger because the deletion failed, next to a child marked
\* in this session.
C24_Witness ==
    /\ last.op = "Prune"
    /\ marked # {}
    /\ \E e \in Range(children) :
          /\ e.ObjectReference \in Range(DeletedRefs(last.deleted))
          /\ e.ObservedGeneration < generation
    /\ \E e \in Range(children) : e.ObservedGeneration = generation

(***************************************************************************)
(* C25  Default error policy never suppresses: in a session with no error  *)
(* handler configured, for every deletion that fails with an error other   *)
(* than NotFound the policy is called and returns an error, the entry      *)
(* stays in the ledger as it was, is not added to pruned, and Prune        *)
(* returns an error.                                                       *)
(***************************************************************************)
C25_DefaultPolicyNeverSuppresses ==
    [][(PruneStep /\ pruner.errorHandler = "default")
         => /\ \A r \in Range(last'.returned) : r = "error"
            /\ \A d \in Range(last'.deleted) :
                  (d.err /\ ~d.notFound)
                    => /\ HandlerReturned(last', d.ref, "error")
                       /\ Failed(last'.causes, d.ref)
                       /\ \A e \in Range(children) :
                             e.ObjectReference = d.ref => e \in Range(children')
                       /\ d.ref \in Refs(children')
                       /\ last'.err # "nil"
            /\ Len(Added(pruner.result.Pruned, pruner'.result.Pruned))
                  = Cardinality({i \in 1..Len(last'.deleted) : ~last'.deleted[i].err})]_vars

\* A Prune of a session with the default policy returned an error after the
\* deletion of one stale entry failed and the deletion of another went
\* through: the first is still in the ledger, the second is listed as pruned.
C25_Witness ==
    /\ last.op = "Prune"
    /\ pruner.errorHandler = "default"
    /\ last.err = "prune"
    /\ Len(last.deleted) = 2
    /\ \E d \in Range(last.deleted) : d.err /\ d.ref \in Refs(children)
    /\ \E d \in Range(last.deleted) : ~d.err /\ d.ref \notin Refs(children)
    /\ Len(pruner.result.Pruned) = 1

(***************************************************************************)
(* C26  Handle construction failure during Prune: when the reference of a  *)
(* stale entry cannot be turned back into an object (its kind is not       *)
(* registered in the scheme), the failure is accumulated and Prune returns *)
(* an error at the end, no deletion is invoked for the entry, and the      *)
(* entry is kept in the ledger.                                            *)
(***************************************************************************)
C26_HandleConstructionFailure ==
    [][(PruneStep /\ generation > pruner.lastAppliedGen)
         => \A e \in Range(StaleWithoutHandle(children)) :
               /\ [cause |-> "object", ref |-> e.ObjectReference] \in Range(last'.causes)
               /\ last'.err # "nil"
               /\ e.ObjectReference \notin Range(DeletedRefs(last'.deleted))
               /\ e \in Range(children')]_vars

(***************************************************************************)
(* C27  Desired-set membership, as amended: Prune treats a ledger entry as *)
(* desired if and only if a reference of the same type, namespace and name *)
(* was marked in this session, whatever its creation identifier (UID): the *)
(* key of desiredRefs leaves the UID out.  In a pruning pass an entry at   *)
(* or below the baseline is left alone iff it names a marked resource; an  *)
(* entry that differs from every marked reference only in its UID is       *)
(* treated as desired.                                                     *)
(***************************************************************************)
C27_DesiredByKey ==
    [][(PruneStep /\ generation > pruner.lastAppliedGen)
         => \A e \in Range(children) :
               /\ makeRefKey(e.ObjectReference) \in pruner.desiredRefs <=> MarkedByName(e)
               /\ ~Fresh(e) => (LeftAlone(e) <=> MarkedByName(e))]_vars

\* C27 as stated: the entry is treated as desired iff a reference equal to
\* it in all fields, the UID included, was marked in this session.
C27_Original ==
    [][(PruneStep /\ generation > pruner.lastAppliedGen)
         => \A e \in Range(children) :
               ~Fresh(e) => (LeftAlone(e) <=> MarkedByReference(e))]_vars

\* A pruning pass in normal mode left alone an entry at or below the
\* baseline whose reference was not marked: the child was recreated and
\* marked under its new UID.
C27_Witness ==
    /\ last.op = "Prune"
    /\ last.ran
    /\ ~pruner.dryRun
    /\ last.deleted = <<>>
    /\ last.causes = <<>>
    /\ \E e \in Range(children) :
          /\ ~Fresh(e)
          /\ ~MarkedByReference(e)
          /\ \E m \in marked : ResourceOf(m) = ResourceOf(e.ObjectReference)
                                 /\ m.UID # e.ObjectReference.UID

(***************************************************************************)
(* C28  No silent loss of tracking: every entry that is in the ledger when *)
(* Prune starts and is not in it when Prune returns was added to the       *)
(* pruned list by this Prune: its deletion succeeded, was answered         *)
(* NotFound, or failed and was waived by the error handler.                *)
(***************************************************************************)
C28_NoSilentLoss ==
    [][PruneStep
         => \A e \in Range(children) :
               e \notin Range(children')
                 => /\ formatObjectReference(e.ObjectReference) \in
                          Range(Added(pruner.result.Pruned, pruner'.result.Pruned))
                    /\ \E d \in Range(last'.deleted) :
                          /\ d.ref = e.ObjectReference
                          /\ d.err => HandlerReturned(last', d.ref, "nil")]_vars

C30_FreshIsDesired ==
    phase # "idle"
        => \A e \in Range(children) :
              Fresh(e)
                => /\ makeRefKey(e.ObjectReference) \in pruner.desiredRefs
                   /\ MarkedByReference(e)

\* A session has marked a child at a generation above its baseline, next to
\* an entry at the baseline that it has not marked.
C30_Witness ==
    /\ phase = "marking"
    /\ last.op = "MarkReconciled"
    /\ \E e \in Range(children) : Fresh(e)
    /\ \E e \in Range(children) :
          ~Fresh(e) /\ makeRefKey(e.ObjectReference) \notin pruner.desiredRefs
    /\ pruner.lastAppliedGen > 0

(***************************************************************************)
(* C31  Dry-run is a preview: when a dry-run session whose Prune returned  *)
(* no error is followed, at the same generation and over the ledger it     *)
(* left, by a session in normal mode that makes the same marks, the Prune  *)
(* first Prune of that session, its deletions succeeding and no error      *)
(* accumulated, adds to pruned every entry that the dry-run session        *)
(* reported as skipped.                                                    *)
(***************************************************************************)
C31_DryRunIsPreview ==
    [][(/\ PruneStep
        /\ phase = "marking"
        /\ ~pruner.dryRun
        /\ prev.ok
        /\ prev'.ok
        /\ last'.causes = <<>>
        /\ \A d \in Range(last'.deleted) : ~d.err)
         => \A s \in preview :
               s \in Range(Added(pruner.result.Pruned, pruner'.result.Pruned))]_vars

(***************************************************************************)
(* C32  No retries inside a pass: during one Prune call client.Delete is   *)
(* called at most once for each ledger entry, and the error handler at     *)
(* most once, also when the deletion fails.                                *)
(***************************************************************************)
C32_NoRetriesInsideAPass ==
    [][PruneStep
         => /\ \A e \in Range(children) :
                  /\ Count(DeletedRefs(last'.deleted), e.ObjectReference) <= 1
                  /\ Count(last'.handled, e.ObjectReference) <= 1
            /\ Len(last'.deleted) <= Len(children)
            /\ Range(DeletedRefs(last'.deleted)) \subseteq Refs(children)]_vars

\* A Prune returned an error after client.Delete failed for a stale entry: it
\* was called once for that entry, which is still in the ledger and still in
\* the cluster.
C32_Witness ==
    /\ last.op = "Prune"
    /\ last.err = "prune"
    /\ \E e \in Range(children) :
          /\ Count(DeletedRefs(last.deleted), e.ObjectReference) = 1
          /\ Count(last.handled, e.ObjectReference) = 1
          /\ \E d \in Range(last.deleted) : d.ref = e.ObjectReference /\ d.err
          /\ cluster[ResourceOf(e.ObjectReference)] # NoUID

(***************************************************************************)
(* C33  Session after Prune, as amended: the Pruner keeps no record that   *)
(* Prune has returned, so a MarkReconciled call made on the same session   *)
(* after Prune acts as one made before it.  When it succeeds it puts the   *)
(* key of the reference into desiredRefs and upserts the ledger entry,     *)
(* stamped with the current generation; when it fails (empty UID, kind not *)
(* registered) it changes neither.                                         *)
(***************************************************************************)
C33_MarkAfterPrune ==
    [][(MarkStep /\ phase = "pruned")
         => IF last'.arg.UID = NoUID \/ GVK(last'.arg) \notin pruner.scheme
            THEN /\ last'.err # "nil"
                 /\ pruner'.desiredRefs = pruner.desiredRefs
                 /\ children' = children
            ELSE /\ last'.err = "nil"
                 /\ pruner'.desiredRefs = pruner.desiredRefs \cup {makeRefKey(last'.arg)}
                 /\ Count(RefSeq(children'), last'.arg) = 1
                 /\ ManagedChild(last'.arg, generation) \in Range(children')
                 /\ \A e \in Range(children) :
                       e.ObjectReference # last'.arg => e \in Range(children')
                 /\ Len(children')
                       = Len(children) + (IF last'.arg \in Refs(children) THEN 0 ELSE 1)]_vars

\* C33 as stated: once Prune has returned, a MarkReconciled call on the same
\* session changes neither the desired set nor the ledger.
C33_Original ==
    [][(MarkStep /\ phase = "pruned")
         => /\ pruner'.desiredRefs = pruner.desiredRefs
            /\ children' = children]_vars

\* After Prune returned on a session that had marked nothing, MarkReconciled
\* succeeded on it: the reference is in the ledger and its key in desiredRefs.
C33_Witness ==
    /\ last.op = "MarkReconciled"
    /\ last.err = "nil"
    /\ phase = "pruned"
    /\ marked = {last.arg}
    /\ pruner.desiredRefs = {makeRefKey(last.arg)}
    /\ ManagedChild(last.arg, generation) \in Range(children)

(***************************************************************************)
(* C34  Deletions follow ledger order: the client.Delete calls of a Prune  *)
(* are made one entry at a time in the order the stale entries stand in    *)
(* the ledger, and so are the handler calls; the entries the Prune adds to *)
(* the pruned list are a subsequence of the ledger as Prune found it.      *)
(***************************************************************************)
C34_DeletionsFollowLedgerOrder ==
    [][PruneStep
         => /\ IsSubsequence(DeletedRefs(last'.deleted), RefSeq(children))
            /\ IsSubsequence(last'.handled, DeletedRefs(last'.deleted))
            /\ IsSubsequence(Added(pruner.result.Pruned, pruner'.result.Pruned),
                             Formatted(children))
            /\ IsSubsequence(Added(pruner.result.Pruned, pruner'.result.Pruned),
                             [i \in 1..Len(last'.deleted) |->
                                 formatObjectReference(last'.deleted[i].ref)])]_vars

\* A Prune deleted two stale entries of different kinds, the first of the
\* ledger first, and lists them as pruned in that order.
C34_Witness ==
    /\ last.op = "Prune"
    /\ Len(last.deleted) = 2
    /\ \A d \in Range(last.deleted) : ~d.err
    /\ last.deleted[1].ref.Kind # last.deleted[2].ref.Kind
    /\ pruner.result.Pruned
          = <<formatObjectReference(last.deleted[1].ref),
              formatObjectReference(last.deleted[2].ref)>>
    /\ children = <<>>

(***************************************************************************)
(* C35  Stable ledger order: MarkReconciled keeps every entry at its       *)
(* position and, when the reference is new, appends its entry at the end;  *)
(* Prune leaves the surviving entries, unchanged, in the relative order    *)
(* they had before.                                                        *)
(***************************************************************************)
C35_StableLedgerOrder ==
    [][/\ MarkStep
            => /\ Len(children') >= Len(children)
               /\ \A i \in 1..Len(children) :
                     children'[i].ObjectReference = children[i].ObjectReference
               /\ Len(children') > Len(children)
                     => /\ Len(children') = Len(children) + 1
                        /\ children'[Len(children')].ObjectReference = last'.arg
                        /\ last'.arg \notin Refs(children)
       /\ PruneStep => IsSubsequence(children', children)]_vars

\* A pruning pass kept two entries in the order they had, the first because
\* its deletion failed, the second because it was marked.
C35_Witness ==
    /\ last.op = "Prune"
    /\ last.ran
    /\ Len(children) = 2
    /\ Failed(last.causes, children[1].ObjectReference)
    /\ MarkedByReference(children[2])

(***************************************************************************)
(* C36  MarkReconciled is idempotent and order-insensitive within a        *)
(* session: at a fixed generation, from every state of a session that has  *)
(* not called Prune yet, marking the same object twice leaves the Pruner   *)
(* and the ledger as marking it once does, and marking two objects in      *)
(* either order yields the same desiredRefs and the same set of ledger     *)
(* entries.                                                                *)
(***************************************************************************)
C36_MarkIdempotentAndCommutative ==
    phase = "marking"
        => LET s == [pruner |-> pruner, children |-> children]
           IN  /\ \A a \in Markable :
                     LET once == After(s, a) IN After(once, a) = once
               /\ \A i, j \in 1..Len(Created) :
                     i < j
                       => LET ab == After(After(s, Created[i]), Created[j])
                              ba == After(After(s, Created[j]), Created[i])
                          IN  /\ ab.pruner.desiredRefs = ba.pruner.desiredRefs
                              /\ Range(ab.children) = Range(ba.children)

\* A session has marked two children, one after the other, over a ledger
\* that held an entry for one of them; the other was appended.
C36_Witness ==
    /\ phase = "marking"
    /\ last.op = "MarkReconciled"
    /\ last.err = "nil"
    /\ Cardinality(marked) = 2
    /\ Len(children) = 2
    /\ pruner.lastAppliedGen > 0
    /\ \A e \in Range(children) : e.ObservedGeneration = generation

====
